---- MODULE Spec2Model ----
(***************************************************************************)
(* OLED_Stats: the scrolling-text routines and the render loops of         *)
(* stats.py and statsAndmonitor.py.                                        *)
(*                                                                         *)
(* Time is counted in tenths of a second (the finest sleep of both         *)
(* scripts, time.sleep(0.1)).  Strings are TLA+ strings, concatenated with *)
(* \o as Python's +.  A frame is the sequence of drawing calls made on the *)
(* image buffer.                                                           *)
(***************************************************************************)
EXTENDS Integers, Sequences, FiniteSets, TLC

(***************************************************************************)
(* Program constants.                                                      *)
(***************************************************************************)
WIDTH == 128
HEIGHT == 64
\* LOOPTIME = 1.0 s and MODE_DURATION = 30 s, in tenths of a second
LOOPTIME == 10
MODE_DURATION == 300
\* time.sleep(0.1) / refresh_interval = 0.1, in tenths of a second
REFRESH_INTERVAL == 1
\* spacing = 20 in draw_scrolling_text_infinite
spacing == 20
\* "return offset + 2" in both routines
SCROLL_STEP == 2

(***************************************************************************)
(* Bounds of the model.                                                    *)
(***************************************************************************)
\* the sample texts of the routine-level specification are MaxWide-3..MaxWide
\* wide glyphs followed by 0..MaxThin thin glyphs
MaxWide == 16
MaxThin == 9
\* offsets handed to the first call of a routine-level run
MaxStartOffset == 3
\* calls of a routine in one routine-level run
MaxTicks == 115
\* statsAndmonitor.py runs until the clock reaches MaxNow, stats.py until it
\* reaches MaxStatsNow (tenths of a second)
MaxNow == 640
MaxStatsNow == 45
\* the probes' outcomes may change during the first ChurnFetches gatherings
ChurnFetches == 2
\* in a routine-level run the line's text changes at most MaxTextChanges
\* times, each time after at most MaxChangeAt calls on the text it replaces
MaxTextChanges == 2
MaxChangeAt == 3

(***************************************************************************)
(* State.                                                                  *)
(***************************************************************************)
VARIABLES
    script,           \* which script the process runs: "stats" or "monitor"
    pc,               \* stats.py: "gather" (top of the while loop) or "scroll"
                      \* (inside the for loop); statsAndmonitor.py: "loop"
    now,              \* time.time(), in tenths of a second since start-up
    metrics,          \* the metrics last gathered, by field
    offsets,          \* offsets / cpu_offset, mem_offset, disk_offset
    current_mode,     \* statsAndmonitor.py: 0 = scrolling mode, 1 = icon mode
    mode_start_time,  \* statsAndmonitor.py: time of the last mode switch
    loop_i,           \* stats.py: iterations of the for loop completed (i)
    frame,            \* the drawing calls of the last frame sent to the display
    shown,            \* number of frames sent to the display (oled.show())
    raised,           \* the fields whose probe raised at the last gathering
    fetches,          \* number of gatherings made
    last_fetch,       \* time of the last gathering
    missing,          \* the font files ImageFont.truetype cannot load
    fonts,            \* what each font variable holds
    log,              \* the messages printed so far
    steps             \* the steps of the last loop iteration, in order

mainvars == <<script, pc, now, metrics, offsets, current_mode, mode_start_time,
              loop_i, frame, shown, raised, fetches, last_fetch,
              missing, fonts, log, steps>>

VARIABLES
    sc_routine,   \* "infinite" (statsAndmonitor.py) or "bounded" (stats.py)
    sc_text,      \* the line's text
    sc_offset,    \* the line's offset, as kept by the caller
    sc_in,        \* the offset passed to the last call
    sc_draws,     \* the drawing calls of the last call
    sc_n,         \* calls made so far on the present text
    sc_start,     \* the offset before the first call on the present text
    sc_changes,   \* number of times the line's text has changed
    sc_prev_fit,  \* the last call made found a text that fits the viewport
    sc_fit_in     \* the offset passed to the last call that found such a text

scvars == <<sc_routine, sc_text, sc_offset, sc_in, sc_draws, sc_n, sc_start,
            sc_changes, sc_prev_fit, sc_fit_in>>

vars == <<mainvars, scvars>>

(***************************************************************************)
(* Text measurement (PIL's draw.textbbox / draw.textsize with the 16 px    *)
(* PixelOperator font): a proportional font, a glyph's advance depending   *)
(* on the glyph only.                                                      *)
(***************************************************************************)
ThinGlyphs == {" ", ".", ":", "'", "|"}

GlyphWidth(c) == IF c \in ThinGlyphs THEN 3 ELSE 8

RECURSIVE WidthFrom(_, _)
WidthFrom(text, i) ==
    IF i > Len(text) THEN 0
    ELSE GlyphWidth(SubSeq(text, i, i)) + WidthFrom(text, i + 1)

\* bbox[2] - bbox[0] of draw.textbbox((0, 0), text, font)
textwidth(text) == WidthFrom(text, 1)

\* draw.text((x, y), text, font=main_font, fill=255)
DrawFont(x, y, text, font) ==
    [op |-> "text", x |-> x, y |-> y, text |-> text, font |-> font]

DrawText(x, y, text) == DrawFont(x, y, text, "main_font")

(***************************************************************************)
(* statsAndmonitor.py: draw_scrolling_text_infinite(y, text, offset).      *)
(* The result is the drawing calls made and the returned offset.           *)
(***************************************************************************)
\* mutant: the fits-viewport path hands the offset back instead of 0
infinite_keeps_offset(y, text, offset) ==
    LET text_width == textwidth(text)
        total_length == text_width + spacing
        effective_offset == offset % total_length
    IN  IF text_width <= WIDTH
        THEN [draws |-> <<DrawText(0, y, text)>>, ret |-> offset]
        ELSE [draws |-> <<DrawText(-effective_offset, y, text)>> \o
                        (IF text_width - effective_offset < WIDTH
                         THEN <<DrawText(text_width - effective_offset + spacing, y, text)>>
                         ELSE <<>>),
              ret |-> offset + SCROLL_STEP]

\* mutant: the second copy is drawn flush against the first (spacing dropped)
infinite_no_spacing(y, text, offset) ==
    LET text_width == textwidth(text)
        total_length == text_width + spacing
        effective_offset == offset % total_length
    IN  IF text_width <= WIDTH
        THEN [draws |-> <<DrawText(0, y, text)>>, ret |-> 0]
        ELSE [draws |-> <<DrawText(-effective_offset, y, text)>> \o
                        (IF text_width - effective_offset < WIDTH
                         THEN <<DrawText(text_width - effective_offset, y, text)>>
                         ELSE <<>>),
              ret |-> offset + SCROLL_STEP]

\* mutant: the offset is used without the modulo reduction
infinite_no_modulo(y, text, offset) ==
    LET text_width == textwidth(text)
        effective_offset == offset
    IN  IF text_width <= WIDTH
        THEN [draws |-> <<DrawText(0, y, text)>>, ret |-> 0]
        ELSE [draws |-> <<DrawText(-effective_offset, y, text)>> \o
                        (IF text_width - effective_offset < WIDTH
                         THEN <<DrawText(text_width - effective_offset + spacing, y, text)>>
                         ELSE <<>>),
              ret |-> offset + SCROLL_STEP]

\* mutant: the offset advances by 1 instead of 2
infinite_step_one(y, text, offset) ==
    LET text_width == textwidth(text)
        total_length == text_width + spacing
        effective_offset == offset % total_length
    IN  IF text_width <= WIDTH
        THEN [draws |-> <<DrawText(0, y, text)>>, ret |-> 0]
        ELSE [draws |-> <<DrawText(-effective_offset, y, text)>> \o
                        (IF text_width - effective_offset < WIDTH
                         THEN <<DrawText(text_width - effective_offset + spacing, y, text)>>
                         ELSE <<>>),
              ret |-> offset + 1]

\* mutant: the second copy is drawn one tick late (<= instead of <, against
\* WIDTH - spacing)
infinite_late_second(y, text, offset) ==
    LET text_width == textwidth(text)
        total_length == text_width + spacing
        effective_offset == offset % total_length
    IN  IF text_width <= WIDTH
        THEN [draws |-> <<DrawText(0, y, text)>>, ret |-> 0]
        ELSE [draws |-> <<DrawText(-effective_offset, y, text)>> \o
                        (IF text_width - effective_offset < WIDTH - spacing
                         THEN <<DrawText(text_width - effective_offset + spacing, y, text)>>
                         ELSE <<>>),
              ret |-> offset + SCROLL_STEP]

\* mutant: the offset wraps at the text width, the spacing left out of the cycle
infinite_wrap_at_width(y, text, offset) ==
    LET text_width == textwidth(text)
        effective_offset == offset % text_width
    IN  IF text_width <= WIDTH
        THEN [draws |-> <<DrawText(0, y, text)>>, ret |-> 0]
        ELSE [draws |-> <<DrawText(-effective_offset, y, text)>> \o
                        (IF text_width - effective_offset < WIDTH
                         THEN <<DrawText(text_width - effective_offset + spacing, y, text)>>
                         ELSE <<>>),
              ret |-> offset + SCROLL_STEP]

draw_scrolling_text_infinite(y, text, offset) ==
    LET text_width == textwidth(text)
        total_length == text_width + spacing
        effective_offset == offset % total_length
    IN  IF text_width <= WIDTH
        THEN [draws |-> <<DrawText(0, y, text)>>, ret |-> 0]
        ELSE [draws |-> <<DrawText(-effective_offset, y, text)>> \o
                        (IF text_width - effective_offset < WIDTH
                         THEN <<DrawText(text_width - effective_offset + spacing, y, text)>>
                         ELSE <<>>),
              ret |-> offset + SCROLL_STEP]

(***************************************************************************)
(* stats.py: draw_scrolling_text(y, text, offset).                         *)
(***************************************************************************)
\* mutant: the offset is never reset at the end of the text
bounded_no_reset(y, text, offset) ==
    LET text_width == textwidth(text)
        o == offset
    IN  IF text_width <= WIDTH
        THEN [draws |-> <<DrawText(0, y, text)>>, ret |-> 0]
        ELSE [draws |-> <<DrawText(-o, y, text)>>, ret |-> o + SCROLL_STEP]

\* mutant: the offset is reset only once the whole text has left the display
bounded_reset_late(y, text, offset) ==
    LET text_width == textwidth(text)
        o == IF offset > text_width THEN 0 ELSE offset
    IN  IF text_width <= WIDTH
        THEN [draws |-> <<DrawText(0, y, text)>>, ret |-> 0]
        ELSE [draws |-> <<DrawText(-o, y, text)>>, ret |-> o + SCROLL_STEP]

\* mutant: a text that fits leaves the offset as it was
bounded_fit_keeps_offset(y, text, offset) ==
    LET text_width == textwidth(text)
        o == IF offset > text_width - WIDTH THEN 0 ELSE offset
    IN  IF text_width <= WIDTH
        THEN [draws |-> <<DrawText(0, y, text)>>, ret |-> offset]
        ELSE [draws |-> <<DrawText(-o, y, text)>>, ret |-> o + SCROLL_STEP]

draw_scrolling_text(y, text, offset) ==
    LET text_width == textwidth(text)
        o == IF offset > text_width - WIDTH THEN 0 ELSE offset
    IN  IF text_width <= WIDTH
        THEN [draws |-> <<DrawText(0, y, text)>>, ret |-> 0]
        ELSE [draws |-> <<DrawText(-o, y, text)>>, ret |-> o + SCROLL_STEP]

(***************************************************************************)
(* Metrics gathering.  Each probe is a shell pipeline run by               *)
(* subprocess.check_output; it either returns the pipeline's output or     *)
(* raises.  ProbeOutput is the output of a working probe.                  *)
(***************************************************************************)
Fields == {"IP", "CPU", "Temp", "Mem", "Disk"}
Lines == {"CPU", "Mem", "Disk"}

ProbeOutput(sc, f) ==
    IF sc = "monitor"
    THEN CASE f = "IP"   -> "10.0.0.2\n"
           [] f = "CPU"  -> "0.52"
           [] f = "Temp" -> "48.3'C\n"
           [] f = "Mem"  -> "11.2/15.6GB 72%"
           [] f = "Disk" -> "/dev/root:12G(43%) /dev/sda1:58G(12%) "
    ELSE CASE f = "IP"   -> "10.0.0.2\n"
           [] f = "CPU"  -> "CPU: 0.52"
           [] f = "Temp" -> "48.3'C\n"
           [] f = "Mem"  -> "Mem: 11.2/15.6GB 71.7949"
           [] f = "Disk" -> "Disk: 112/229GB 49%"

Whitespace == {" ", "\n"}

RECURSIVE lstrip(_)
lstrip(s) ==
    IF Len(s) > 0 /\ SubSeq(s, 1, 1) \in Whitespace
    THEN lstrip(SubSeq(s, 2, Len(s)))
    ELSE s

RECURSIVE rstrip(_)
rstrip(s) ==
    IF Len(s) > 0 /\ SubSeq(s, Len(s), Len(s)) \in Whitespace
    THEN rstrip(SubSeq(s, 1, Len(s) - 1))
    ELSE s

\* str.strip()
strip(s) == lstrip(rstrip(s))

\* mutant: one try block around all five probes, so that one failing probe
\* blanks every field
fetch_metrics_one_try(r) ==
    [f \in Fields |->
        IF r # {} THEN "N/A" ELSE strip(ProbeOutput("monitor", f))]

\* mutant: a failed CPU probe leaves the field empty
fetch_metrics_empty_cpu(r) ==
    [f \in Fields |->
        IF f \in r
        THEN (IF f = "CPU" THEN "" ELSE "N/A")
        ELSE strip(ProbeOutput("monitor", f))]

\* statsAndmonitor.py fetch_metrics(), r the set of fields whose probe raises
fetch_metrics(r) ==
    [f \in Fields |->
        IF f \in r THEN "N/A" ELSE strip(ProbeOutput("monitor", f))]

\* stats.py: the placeholder of each except branch
StatsPlaceholder(f) ==
    CASE f = "IP"   -> "N/A"
      [] f = "CPU"  -> "CPU: N/A"
      [] f = "Temp" -> "Temp: N/A"
      [] f = "Mem"  -> "Mem: N/A"
      [] f = "Disk" -> "Disk: N/A"

\* stats.py "Gather Metrics": IP, CPU, Temp, MemUsage, Disk
gather_metrics(r) ==
    [f \in Fields |->
        IF f \in r THEN StatsPlaceholder(f) ELSE strip(ProbeOutput("stats", f))]

\* the metrics before the first gathering
NoMetrics == [f \in Fields |-> ""]

(***************************************************************************)
(* Frames.                                                                 *)
(***************************************************************************)
\* draw.rectangle((0, 0, WIDTH, HEIGHT), outline=0, fill=0)
ClearImage == [op |-> "rectangle", x |-> 0, y |-> 0, w |-> WIDTH, h |-> HEIGHT]
\* oled.image(image); oled.show()
ShowImage == <<[op |-> "image"], [op |-> "show"]>>

\* the text of each scrolling line, statsAndmonitor.py display_scrolling_mode
MonitorLineText(m, l) ==
    CASE l = "CPU"  -> "CPU: " \o m["CPU"] \o " | Temp: " \o m["Temp"]
      [] l = "Mem"  -> "Mem: " \o m["Mem"]
      [] l = "Disk" -> "Disk: " \o m["Disk"]

\* the text of each scrolling line, stats.py: cpu_text, mem_text, disk_text
StatsLineText(m, l) ==
    CASE l = "CPU"  -> m["CPU"] \o " | " \o m["Temp"]
      [] l = "Mem"  -> m["Mem"]
      [] l = "Disk" -> m["Disk"]

\* mutant: the Mem line is scrolled from the CPU line's offset
display_scrolling_mode_shared(m, offs) ==
    LET cpu  == draw_scrolling_text_infinite(16, MonitorLineText(m, "CPU"), offs["CPU"])
        mem  == draw_scrolling_text_infinite(32, MonitorLineText(m, "Mem"), offs["CPU"])
        disk == draw_scrolling_text_infinite(48, MonitorLineText(m, "Disk"), offs["Disk"])
    IN  [frame |-> <<ClearImage, DrawText(0, 0, "IP: " \o m["IP"])>>
                     \o cpu.draws \o mem.draws \o disk.draws \o ShowImage,
         offsets |-> [l \in Lines |->
                        CASE l = "CPU" -> cpu.ret
                          [] l = "Mem" -> mem.ret
                          [] l = "Disk" -> disk.ret]]

\* statsAndmonitor.py display_scrolling_mode(metrics, offsets): the frame
\* drawn and the updated offsets
display_scrolling_mode(m, offs) ==
    LET cpu  == draw_scrolling_text_infinite(16, MonitorLineText(m, "CPU"), offs["CPU"])
        mem  == draw_scrolling_text_infinite(32, MonitorLineText(m, "Mem"), offs["Mem"])
        disk == draw_scrolling_text_infinite(48, MonitorLineText(m, "Disk"), offs["Disk"])
    IN  [frame |-> <<ClearImage, DrawText(0, 0, "IP: " \o m["IP"])>>
                     \o cpu.draws \o mem.draws \o disk.draws \o ShowImage,
         offsets |-> [l \in Lines |->
                        CASE l = "CPU" -> cpu.ret
                          [] l = "Mem" -> mem.ret
                          [] l = "Disk" -> disk.ret]]

\* statsAndmonitor.py display_icon_mode(metrics): the frame drawn
display_icon_mode(m) ==
    <<ClearImage,
      DrawFont(0, 0, "chr(62609)", "icon_small"),
      DrawFont(18, 0, m["Temp"], "main_small"),
      DrawFont(70, 0, "chr(62776)", "icon_small"),
      DrawFont(90, 0, m["Mem"], "main_small"),
      DrawFont(0, 18, "chr(63426)", "icon_small"),
      DrawFont(18, 18, m["Disk"], "main_small"),
      DrawFont(70, 18, "chr(62171)", "icon_small"),
      DrawFont(90, 18, m["CPU"], "main_small"),
      DrawFont(0, 36, "chr(61931)", "icon_small"),
      DrawFont(18, 36, m["IP"], "main_small")>> \o ShowImage

\* stats.py: one iteration of the for loop, up to oled.show()
stats_frame(m, offs) ==
    LET cpu  == draw_scrolling_text(16, StatsLineText(m, "CPU"), offs["CPU"])
        mem  == draw_scrolling_text(32, StatsLineText(m, "Mem"), offs["Mem"])
        disk == draw_scrolling_text(48, StatsLineText(m, "Disk"), offs["Disk"])
    IN  [frame |-> <<ClearImage, DrawText(0, 0, "IP: " \o m["IP"])>>
                     \o cpu.draws \o mem.draws \o disk.draws \o ShowImage,
         offsets |-> [l \in Lines |->
                        CASE l = "CPU" -> cpu.ret
                          [] l = "Mem" -> mem.ret
                          [] l = "Disk" -> disk.ret]]

(***************************************************************************)
(* Fonts.  ImageFont.truetype(file, size) raises when the file cannot be   *)
(* loaded; every load is wrapped in try/except and falls back to           *)
(* ImageFont.load_default().                                               *)
(***************************************************************************)
\* the font variables (stats.py's font is written main_font, as in DrawText)
FontSites == {"main_font", "icon_font", "icon_small", "main_small"}

\* the file each font variable is loaded from
FontFile(site) ==
    IF site \in {"main_font", "main_small"}
    THEN "PixelOperator.ttf"
    ELSE "lineawesome-webfont.ttf"

\* the font variables loaded at start-up, in order
StartupSites(sc) ==
    IF sc = "monitor" THEN <<"main_font", "icon_font">> ELSE <<"main_font">>

\* the font variables loaded by display_icon_mode on every frame, in order
IconSites == <<"icon_small", "main_small">>

\* the font files a script loads
FontFilesOf(sc) ==
    IF sc = "monitor"
    THEN {"PixelOperator.ttf", "lineawesome-webfont.ttf"}
    ELSE {"PixelOperator.ttf"}

\* try: ImageFont.truetype(file, size)  except: ImageFont.load_default()
load_font(site, miss) ==
    IF FontFile(site) \in miss THEN "default" ELSE "truetype"

\* the message printed by the except clause of a start-up load
StartupMessage(sc, site) ==
    [site |-> site,
     text |-> IF sc = "monitor"
              THEN "Error loading " \o FontFile(site) \o ", using default font:"
              ELSE "Error loading custom font, using default:"]

\* the font variables after the start-up loads
startup_fonts(sc, miss) ==
    [s \in FontSites |->
        IF \E i \in DOMAIN StartupSites(sc) : StartupSites(sc)[i] = s
        THEN load_font(s, miss)
        ELSE "unloaded"]

RECURSIVE startup_log_from(_, _, _)
startup_log_from(sc, miss, i) ==
    IF i > Len(StartupSites(sc)) THEN <<>>
    ELSE (IF FontFile(StartupSites(sc)[i]) \in miss
          THEN <<StartupMessage(sc, StartupSites(sc)[i])>>
          ELSE <<>>) \o startup_log_from(sc, miss, i + 1)

\* what the start-up loads print
startup_log(sc, miss) == startup_log_from(sc, miss, 1)

\* display_icon_mode: the small fonts are loaded again on every frame; the
\* except clauses print nothing
icon_mode_fonts(f, miss) ==
    [s \in FontSites |->
        IF \E i \in DOMAIN IconSites : IconSites[i] = s
        THEN load_font(s, miss)
        ELSE f[s]]

\* the drawing calls of a frame, by name
FrameOps(f) == [k \in 1..Len(f) |-> f[k].op]

\* stats.py: iterations = int(LOOPTIME / refresh_interval)
iterations == LOOPTIME \div REFRESH_INTERVAL

(***************************************************************************)
(* The render loops.                                                       *)
(***************************************************************************)
\* the outcomes the probes may have at the next gathering: any during the
\* first ChurnFetches gatherings of a run in which every font file loads, the
\* same as the last one otherwise
ProbeOutcomes ==
    IF fetches < ChurnFetches /\ missing = {} THEN SUBSET Fields ELSE {raised}

ScrollIdle ==
    /\ sc_routine = "infinite"
    /\ sc_text = ""
    /\ sc_offset = 0
    /\ sc_in = 0
    /\ sc_draws = <<>>
    /\ sc_n = 0
    /\ sc_start = 0
    /\ sc_changes = 0
    /\ sc_prev_fit = FALSE
    /\ sc_fit_in = 0

Init ==
    /\ script \in {"stats", "monitor"}
    /\ pc = IF script = "stats" THEN "gather" ELSE "loop"
    /\ now = 0
    /\ metrics = NoMetrics
    /\ offsets = [l \in Lines |-> 0]
    /\ current_mode = 0
    /\ mode_start_time = 0
    /\ loop_i = 0
    /\ frame = <<>>
    /\ shown = 0
    /\ raised = {}
    /\ fetches = 0
    /\ last_fetch = 0
    /\ missing \in SUBSET FontFilesOf(script)
    /\ fonts = startup_fonts(script, missing)
    /\ log = startup_log(script, missing)
    /\ steps = <<>>
    /\ ScrollIdle

\* mutant: the switch waits until the duration is exceeded
switch_due_strict(t, start) == t - start > MODE_DURATION

\* statsAndmonitor.py line 194: the mode switch is due
switch_due(t, start) == t - start >= MODE_DURATION

\* mutant: a mode switch restarts the scrolling of every line
MonitorTick_reset_on_switch ==
    /\ script = "monitor"
    /\ now < MaxNow
    /\ LET due  == switch_due(now, mode_start_time)
           mode == IF due THEN 1 - current_mode ELSE current_mode
           offs == IF due THEN [l \in Lines |-> 0] ELSE offsets
       IN  /\ current_mode' = mode
           /\ mode_start_time' = IF due THEN now ELSE mode_start_time
           /\ \E r \in ProbeOutcomes :
                /\ raised' = r
                /\ metrics' = fetch_metrics(r)
           /\ fetches' = fetches + 1
           /\ last_fetch' = now
           /\ IF mode = 0
              THEN LET d == display_scrolling_mode(metrics', offs)
                   IN  /\ frame' = d.frame
                       /\ offsets' = d.offsets
                       /\ now' = now + REFRESH_INTERVAL
              ELSE /\ frame' = display_icon_mode(metrics')
                   /\ offsets' = offs
                   /\ now' = now + LOOPTIME
           /\ fonts' = IF mode = 0 THEN fonts ELSE icon_mode_fonts(fonts, missing)
           /\ steps' = <<"mode_timer", "fetch_metrics">> \o FrameOps(frame')
                          \o <<"sleep">>
           /\ shown' = shown + 1
    /\ UNCHANGED <<script, pc, loop_i, missing, log, scvars>>

\* mutant: the loop sleeps the frame interval in both modes
MonitorTick_fixed_sleep ==
    /\ script = "monitor"
    /\ now < MaxNow
    /\ LET due  == switch_due(now, mode_start_time)
           mode == IF due THEN 1 - current_mode ELSE current_mode
       IN  /\ current_mode' = mode
           /\ mode_start_time' = IF due THEN now ELSE mode_start_time
           /\ \E r \in ProbeOutcomes :
                /\ raised' = r
                /\ metrics' = fetch_metrics(r)
           /\ fetches' = fetches + 1
           /\ last_fetch' = now
           /\ IF mode = 0
              THEN LET d == display_scrolling_mode(metrics', offsets)
                   IN  /\ frame' = d.frame
                       /\ offsets' = d.offsets
                       /\ now' = now + REFRESH_INTERVAL
              ELSE /\ frame' = display_icon_mode(metrics')
                   /\ offsets' = offsets
                   /\ now' = now + REFRESH_INTERVAL
           /\ fonts' = IF mode = 0 THEN fonts ELSE icon_mode_fonts(fonts, missing)
           /\ steps' = <<"mode_timer", "fetch_metrics">> \o FrameOps(frame')
                          \o <<"sleep">>
           /\ shown' = shown + 1
    /\ UNCHANGED <<script, pc, loop_i, missing, log, scvars>>

\* mutant: the frame is rendered with the mode of the tick before, the new
\* mode applies from the next iteration
MonitorTick_render_then_switch ==
    /\ script = "monitor"
    /\ now < MaxNow
    /\ LET due  == switch_due(now, mode_start_time)
           mode == IF due THEN 1 - current_mode ELSE current_mode
       IN  /\ current_mode' = mode
           /\ mode_start_time' = IF due THEN now ELSE mode_start_time
           /\ \E r \in ProbeOutcomes :
                /\ raised' = r
                /\ metrics' = fetch_metrics(r)
           /\ fetches' = fetches + 1
           /\ last_fetch' = now
           /\ IF current_mode = 0
              THEN LET d == display_scrolling_mode(metrics', offsets)
                   IN  /\ frame' = d.frame
                       /\ offsets' = d.offsets
                       /\ now' = now + REFRESH_INTERVAL
              ELSE /\ frame' = display_icon_mode(metrics')
                   /\ offsets' = offsets
                   /\ now' = now + LOOPTIME
           /\ fonts' = IF current_mode = 0 THEN fonts ELSE icon_mode_fonts(fonts, missing)
           /\ steps' = <<"mode_timer", "fetch_metrics">> \o FrameOps(frame')
                          \o <<"sleep">>
           /\ shown' = shown + 1
    /\ UNCHANGED <<script, pc, loop_i, missing, log, scvars>>

\* statsAndmonitor.py: one iteration of the while loop
MonitorTick ==
    /\ script = "monitor"
    /\ now < MaxNow
    /\ LET due  == switch_due(now, mode_start_time)
           mode == IF due THEN 1 - current_mode ELSE current_mode
       IN  /\ current_mode' = mode
           /\ mode_start_time' = IF due THEN now ELSE mode_start_time
           /\ \E r \in ProbeOutcomes :
                /\ raised' = r
                /\ metrics' = fetch_metrics(r)
           /\ fetches' = fetches + 1
           /\ last_fetch' = now
           /\ IF mode = 0
              THEN LET d == display_scrolling_mode(metrics', offsets)
                   IN  /\ frame' = d.frame
                       /\ offsets' = d.offsets
                       /\ now' = now + REFRESH_INTERVAL
              ELSE /\ frame' = display_icon_mode(metrics')
                   /\ offsets' = offsets
                   /\ now' = now + LOOPTIME
           /\ fonts' = IF mode = 0 THEN fonts ELSE icon_mode_fonts(fonts, missing)
           /\ steps' = <<"mode_timer", "fetch_metrics">> \o FrameOps(frame')
                          \o <<"sleep">>
           /\ shown' = shown + 1
    /\ UNCHANGED <<script, pc, loop_i, missing, log, scvars>>

\* stats.py lines 107-153: gather the metrics, compose the lines
StatsGather ==
    /\ script = "stats"
    /\ pc = "gather"
    /\ now < MaxStatsNow
    /\ \E r \in ProbeOutcomes :
         /\ raised' = r
         /\ metrics' = gather_metrics(r)
    /\ fetches' = fetches + 1
    /\ last_fetch' = now
    /\ loop_i' = 0
    /\ pc' = IF iterations > 0 THEN "scroll" ELSE "gather"
    /\ steps' = <<"gather">>
    /\ UNCHANGED <<script, now, offsets, current_mode, mode_start_time,
                   frame, shown, missing, fonts, log, scvars>>

\* stats.py lines 155-175: one iteration of the for loop
StatsFrame ==
    /\ script = "stats"
    /\ pc = "scroll"
    /\ LET d == stats_frame(metrics, offsets)
       IN  /\ frame' = d.frame
           /\ offsets' = d.offsets
    /\ shown' = shown + 1
    /\ now' = now + REFRESH_INTERVAL
    /\ loop_i' = loop_i + 1
    /\ pc' = IF loop_i + 1 < iterations THEN "scroll" ELSE "gather"
    /\ steps' = FrameOps(frame') \o <<"sleep">>
    /\ UNCHANGED <<script, metrics, current_mode, mode_start_time, raised,
                   fetches, last_fetch, missing, fonts, log, scvars>>

Next == MonitorTick \/ StatsGather \/ StatsFrame

Spec == Init /\ [][Next]_vars

(***************************************************************************)
(* Routine-level specification: one of the two routines is called over and *)
(* over on one line, as the loops do (offset = routine(y, text, offset)),  *)
(* from any text of the samples and any starting offset.                   *)
(***************************************************************************)
RECURSIVE Rep(_, _)
Rep(c, n) == IF n <= 0 THEN "" ELSE c \o Rep(c, n - 1)

\* the text of the spec's end-to-end example: 25 wide glyphs, 200 px
ExampleText == Rep("M", 25)

SampleTexts ==
    { Rep("M", n) \o Rep(".", k) : n \in (MaxWide - 3)..MaxWide, k \in 0..MaxThin }
        \cup {ExampleText}

\* the vertical position of the CPU line
LineY == 16

\* the loops do not run in the routine-level specification
MainIdle ==
    /\ script = "monitor"
    /\ pc = "loop"
    /\ now = 0
    /\ metrics = NoMetrics
    /\ offsets = [l \in Lines |-> 0]
    /\ current_mode = 0
    /\ mode_start_time = 0
    /\ loop_i = 0
    /\ frame = <<>>
    /\ shown = 0
    /\ raised = {}
    /\ fetches = 0
    /\ last_fetch = 0
    /\ missing = {}
    /\ fonts = startup_fonts("monitor", {})
    /\ log = <<>>
    /\ steps = <<>>

ScrollInit ==
    /\ sc_routine \in {"infinite", "bounded"}
    /\ sc_text \in SampleTexts
    /\ sc_offset \in 0..MaxStartOffset
    /\ sc_in = sc_offset
    /\ sc_draws = <<>>
    /\ sc_n = 0
    /\ sc_start = sc_offset
    /\ sc_changes = 0
    /\ sc_prev_fit = FALSE
    /\ sc_fit_in = 0
    /\ MainIdle

ScrollInfinite ==
    /\ sc_routine = "infinite"
    /\ sc_n < MaxTicks
    /\ LET r == draw_scrolling_text_infinite(LineY, sc_text, sc_offset)
       IN  /\ sc_draws' = r.draws
           /\ sc_offset' = r.ret
    /\ sc_in' = sc_offset
    /\ sc_n' = sc_n + 1
    /\ sc_prev_fit' = (textwidth(sc_text) <= WIDTH)
    /\ sc_fit_in' = IF textwidth(sc_text) <= WIDTH THEN sc_offset ELSE sc_fit_in
    /\ UNCHANGED <<sc_routine, sc_text, sc_start, sc_changes, mainvars>>

ScrollBounded ==
    /\ sc_routine = "bounded"
    /\ sc_n < MaxTicks
    /\ LET r == draw_scrolling_text(LineY, sc_text, sc_offset)
       IN  /\ sc_draws' = r.draws
           /\ sc_offset' = r.ret
    /\ sc_in' = sc_offset
    /\ sc_n' = sc_n + 1
    /\ sc_prev_fit' = (textwidth(sc_text) <= WIDTH)
    /\ sc_fit_in' = IF textwidth(sc_text) <= WIDTH THEN sc_offset ELSE sc_fit_in
    /\ UNCHANGED <<sc_routine, sc_text, sc_start, sc_changes, mainvars>>

\* the texts a line's text may change to: 120 px and 128 px (fit), 129 px and
\* 136 px (wider than the viewport)
ChangeTexts ==
    {Rep("M", 15), Rep("M", 16), Rep("M", 15) \o Rep(".", 3), Rep("M", 17)}

\* the line's text changes between two calls (new metrics were gathered);
\* the offset kept by the caller is not touched
ScrollSetText ==
    /\ sc_changes < MaxTextChanges
    /\ sc_n <= MaxChangeAt
    /\ \E t \in ChangeTexts \ {sc_text} : sc_text' = t
    /\ sc_changes' = sc_changes + 1
    /\ sc_n' = 0
    /\ sc_start' = sc_offset
    /\ sc_in' = sc_offset
    /\ sc_draws' = <<>>
    /\ UNCHANGED <<sc_routine, sc_offset, sc_prev_fit, sc_fit_in, mainvars>>

ScrollNext == ScrollInfinite \/ ScrollBounded \/ ScrollSetText

SpecScroll == ScrollInit /\ [][ScrollNext]_vars

(***************************************************************************)
(* Claims about the routines (checked under SpecScroll).                   *)
(***************************************************************************)
sc_width == textwidth(sc_text)
sc_total == sc_width + spacing
\* the effective offset of the last call, and of the next one
sc_eff_in == sc_in % sc_total
sc_eff == sc_offset % sc_total
sc_eff_start == sc_start % sc_total
\* the last call was made on a text wider than the viewport by the
\* infinite-scroll routine
InfiniteWideCall == sc_routine = "infinite" /\ sc_n > 0 /\ sc_width > WIDTH

\* viewport column p is inside the span of one of the copies drawn
CoveredBy(p, w) ==
    \E i \in 1..Len(sc_draws) :
        sc_draws[i].x <= p /\ p < sc_draws[i].x + w

Covered(p) == CoveredBy(p, sc_width)

\* C1: a text no wider than the viewport is drawn once, at x = 0, and the
\* offset handed back is 0 whatever offset was passed in, by both routines;
\* so the offset stays 0 over any number of repeated calls.
C1_FitsViewport ==
    (sc_n > 0 /\ sc_width <= WIDTH) =>
        /\ sc_draws = <<DrawText(0, LineY, sc_text)>>
        /\ sc_offset = 0

\* C1 witness: the text is exactly as wide as the viewport, the first call got
\* a non-zero offset, and the call has been repeated.
C1_Witness ==
    /\ sc_routine = "infinite"
    /\ sc_width = WIDTH
    /\ sc_start = MaxStartOffset
    /\ sc_n >= 3
    /\ sc_offset = 0

\* C2 (as stated): whenever text_width - effective_offset < viewport width a
\* second copy is drawn at text_width - effective_offset + spacing, and the
\* two copies together cover every column of the viewport.
C2_NoBlankGap ==
    (InfiniteWideCall /\ sc_width - sc_eff_in < WIDTH) =>
        /\ Len(sc_draws) = 2
        /\ sc_draws[2].x = sc_width - sc_eff_in + spacing
        /\ LET w == sc_width
           IN  \A p \in 0..(WIDTH - 1) : CoveredBy(p, w)

\* C2 (amended): whenever text_width - effective_offset < viewport width a
\* second copy is drawn at text_width - effective_offset + spacing; the only
\* viewport columns no copy covers are those of the spacing gap between the
\* two copies, [text_width - effective_offset, text_width - effective_offset
\* + spacing).
C2_SeamIsSpacingGap ==
    (InfiniteWideCall /\ sc_width - sc_eff_in < WIDTH) =>
        /\ Len(sc_draws) = 2
        /\ sc_draws[2].x = sc_width - sc_eff_in + spacing
        /\ LET w == sc_width
               gap == w - (sc_in % (w + spacing))
           IN  \A p \in 0..(WIDTH - 1) :
                  \/ CoveredBy(p, w)
                  \/ gap <= p /\ p < gap + spacing

\* C2 witness: a second copy was drawn and part of the spacing gap lies in
\* the viewport.
C2_Witness ==
    /\ InfiniteWideCall
    /\ Len(sc_draws) = 2
    /\ \E p \in 0..(WIDTH - 1) : ~Covered(p)

\* C3: on a text wider than the viewport the primary copy is drawn at
\* x = -effective_offset with effective_offset = offset mod (text_width +
\* spacing), which lies in [0, text_width + spacing) however large the offset.
C3_WrapAround ==
    InfiniteWideCall =>
        /\ sc_draws[1] = DrawText(-(sc_in % sc_total), LineY, sc_text)
        /\ 0 <= -sc_draws[1].x
        /\ -sc_draws[1].x < sc_total

\* C3 witness: the offset passed in has grown past one full cycle.
C3_Witness ==
    /\ InfiniteWideCall
    /\ sc_in > sc_total
    /\ sc_draws[1].x # -sc_in

\* ceil((text_width + spacing) / step)
sc_period == (sc_total + SCROLL_STEP - 1) \div SCROLL_STEP

\* C4 (as stated): every call on a wide text returns offset + step, and after
\* ceil((text_width + spacing) / step) calls the effective offset is back at
\* its starting value, for every text width.
C4_PeriodEveryWidth ==
    (sc_routine = "infinite" /\ sc_width > WIDTH) =>
        /\ sc_n > 0 => sc_offset = sc_in + SCROLL_STEP
        /\ sc_n = sc_period => sc_eff = sc_eff_start

\* C4 (amended): every call on a wide text returns offset + step; after
\* ceil((text_width + spacing) / step) calls the effective offset is back at
\* its starting value when text_width + spacing is a multiple of step, and is
\* one pixel past it (modulo text_width + spacing) when it is not.
C4_PeriodEvenTotal ==
    (sc_routine = "infinite" /\ sc_width > WIDTH) =>
        /\ sc_n > 0 => sc_offset = sc_in + SCROLL_STEP
        /\ sc_n = sc_period =>
              IF sc_total % SCROLL_STEP = 0
              THEN sc_eff = sc_eff_start
              ELSE sc_eff = (sc_eff_start + 1) % sc_total

\* C4 witness: a full period of calls was made on a text whose cycle length
\* is odd.
C4_Witness ==
    /\ sc_routine = "infinite"
    /\ sc_width > WIDTH
    /\ sc_total % SCROLL_STEP = 1
    /\ sc_n = sc_period
    /\ sc_eff # sc_eff_start

\* C9: the end-to-end example.  With a 200 px text and the offset starting at
\* 0, the first call draws the primary copy alone at x = 0 and returns 2; the
\* call with offset 100 draws the primary copy at x = -100 and a second copy
\* at x = 120; and the offset is 100 after exactly 50 calls.
C9_EndToEnd ==
    (sc_routine = "infinite" /\ sc_text = ExampleText /\ sc_start = 0) =>
        /\ sc_width = 200 /\ spacing = 20 /\ SCROLL_STEP = 2 /\ WIDTH = 128
        /\ sc_n = 1 =>
              /\ sc_draws = <<DrawText(0, LineY, sc_text)>>
              /\ sc_offset = 2
        /\ (sc_n > 0 /\ sc_in = 100) =>
              sc_draws = <<DrawText(-100, LineY, sc_text),
                           DrawText(120, LineY, sc_text)>>
        /\ sc_offset = 100 <=> sc_n = 50

\* C9 witness: the call with offset 100 has been made in the example run.
C9_Witness ==
    /\ sc_routine = "infinite"
    /\ sc_text = ExampleText
    /\ sc_start = 0
    /\ sc_n = 51
    /\ sc_in = 100
    /\ Len(sc_draws) = 2

(***************************************************************************)
(* Claims about the render loops (checked under Spec).                     *)
(***************************************************************************)
\* C5: the scheduler starts in page 0; on a tick where the time since the
\* last switch is at least MODE_DURATION the page becomes (current + 1) mod 2
\* and the page timer is reset to the current time; on every other tick the
\* page and its timer are unchanged; the page is always 0 or 1 and neither
\* page is terminal (the loop can take its next tick at start-up and after
\* every switch).
C5_PageStateMachine ==
    /\ current_mode = 0
    /\ (script = "monitor" => ENABLED MonitorTick)
    /\ [][script = "monitor" =>
            /\ (now - mode_start_time >= MODE_DURATION) =>
                  /\ current_mode' = (current_mode + 1) % 2
                  /\ mode_start_time' = now
            /\ (now - mode_start_time < MODE_DURATION) =>
                  /\ current_mode' = current_mode
                  /\ mode_start_time' = mode_start_time
            /\ current_mode' \in {0, 1}
            /\ (current_mode' # current_mode /\ now' < MaxNow) =>
                  (ENABLED MonitorTick)']_vars

\* C5 witness: page 0 is active again, after both switches.
C5_Witness ==
    /\ script = "monitor"
    /\ current_mode = 0
    /\ mode_start_time = 2 * MODE_DURATION
    /\ now > mode_start_time

\* C6: a tick that renders the icon page leaves the offsets of the CPU, Mem
\* and Disk lines untouched, the tick that switches pages included; and the
\* tick that returns to the scrolling page advances each line from the offset
\* it had when the page was left (offset + 2 for a wide line, 0 for a line
\* that fits), never from a reset value.
C6_ScrollStatePersists ==
    [][script = "monitor" =>
         /\ current_mode' = 1 => offsets' = offsets
         /\ (current_mode = 1 /\ current_mode' = 0) =>
               \A l \in Lines :
                  offsets'[l] =
                     IF textwidth(MonitorLineText(metrics', l)) <= WIDTH
                     THEN 0
                     ELSE offsets[l] + SCROLL_STEP]_vars

\* C6 witness: the scrolling page is active again and the CPU line has
\* resumed from the offset reached during the whole first period.
C6_Witness ==
    /\ script = "monitor"
    /\ current_mode = 0
    /\ mode_start_time = 2 * MODE_DURATION
    /\ offsets["CPU"] = SCROLL_STEP * (MODE_DURATION \div REFRESH_INTERVAL) + SCROLL_STEP

\* the placeholder a script gives a field whose probe raised
Placeholder(sc, f) == IF sc = "monitor" THEN "N/A" ELSE StatsPlaceholder(f)

\* the last frame was sent to the display and shows the IP of the metrics
FrameShowsMetrics ==
    /\ Len(frame) > 0
    /\ frame[Len(frame)].op = "show"
    /\ frame[1] = ClearImage
    /\ \E k \in 1..Len(frame) :
          /\ frame[k].op = "text"
          /\ frame[k].text \in {metrics["IP"], "IP: " \o metrics["IP"]}

\* C7: each of the five fields is probed on its own: a field whose probe
\* raised holds its placeholder, every other field holds its probe's
\* (stripped) output, all five fields have a value, and the loop goes on to
\* render and send a frame from those metrics.
C7_ProbesIndependent ==
    fetches > 0 =>
        /\ DOMAIN metrics = Fields
        /\ \A f \in Fields :
              metrics[f] = IF f \in raised
                           THEN Placeholder(script, f)
                           ELSE strip(ProbeOutput(script, f))
        /\ script = "monitor" => (shown = fetches /\ FrameShowsMetrics)
        /\ script = "stats" =>
              /\ shown = (fetches - 1) * iterations + loop_i
              /\ loop_i > 0 => FrameShowsMetrics
              /\ loop_i < iterations => ENABLED StatsFrame

\* C7 witness: two probes raised, the other three did not, and a frame was
\* sent.
C7_Witness ==
    /\ script = "monitor"
    /\ raised = {"Temp", "Disk"}
    /\ metrics["CPU"] = "0.52"
    /\ metrics["Temp"] = "N/A"
    /\ shown > 1

\* the last frame is a scrolling-layout frame rendered from the metrics of
\* the last gathering
ScrollFrameFresh ==
    \/ script = "monitor" /\ fetches > 0 /\ current_mode = 0
    \/ script = "stats" /\ fetches > 0 /\ loop_i > 0

\* the text of the CPU line (y = 16) as handed to the scrolling routine
CpuLineDrawn ==
    LET ks == {k \in 1..Len(frame) : frame[k].op = "text" /\ frame[k].y = 16}
    IN  frame[CHOOSE k \in ks : TRUE].text

\* C8 (as stated): when the CPU-load probe fails, the composed CPU line reads
\* exactly "CPU: N/A".
C8_ExactlyCpuNA ==
    ("CPU" \in raised /\ ScrollFrameFresh) => CpuLineDrawn = "CPU: N/A"

\* C8 (amended): when the CPU-load probe fails, the composed CPU line begins
\* with "CPU: N/A" and goes on with " | " and the temperature part
\* (" | Temp: <temp>" in statsAndmonitor.py, " | <temp>" in stats.py); it is
\* never empty.
C8_CpuLineStartsWithNA ==
    ("CPU" \in raised /\ ScrollFrameFresh) =>
        /\ SubSeq(CpuLineDrawn, 1, 8) = "CPU: N/A"
        /\ CpuLineDrawn =
              "CPU: N/A | " \o (IF script = "monitor" THEN "Temp: " ELSE "")
                 \o metrics["Temp"]
        /\ CpuLineDrawn # ""

\* C8 witness: the CPU probe alone raised and the scrolling page was drawn.
C8_Witness ==
    /\ script = "monitor"
    /\ raised = {"CPU"}
    /\ ScrollFrameFresh
    /\ Len(CpuLineDrawn) > 8

\* C10 (as stated): the metrics are gathered only when LOOPTIME has elapsed
\* since the last gathering, and the frames in between render from the same
\* metrics, in both scripts.
C10_MetricsOwnCadence ==
    [][/\ (fetches' = fetches + 1 /\ fetches > 0) => now - last_fetch >= LOOPTIME
       /\ fetches' = fetches => metrics' = metrics]_vars

\* C10, stats.py alone: there the gatherings are LOOPTIME apart.
C10_StatsCadence ==
    [][script = "stats" =>
         /\ (fetches' = fetches + 1 /\ fetches > 0) => now - last_fetch >= LOOPTIME
         /\ fetches' = fetches => metrics' = metrics]_vars

(***************************************************************************)
(* Further claims about the routines (checked under SpecScroll).           *)
(***************************************************************************)
\* the last call was made on a text wider than the viewport
WideCall == sc_n > 0 /\ sc_width > WIDTH

\* the length of one scroll cycle of the routine in use
sc_cycle == IF sc_routine = "infinite" THEN sc_total ELSE sc_width - WIDTH

\* C12 (as stated): the offset is a non-negative integer, it is 0 after a call
\* on a text that fits, and it counts the pixels scrolled within the current
\* cycle only (it is reset when a cycle completes), in both routines.
C12_ResetEveryCycle ==
    /\ sc_offset \in Nat
    /\ (sc_n > 0 /\ sc_width <= WIDTH) => sc_offset = 0
    /\ WideCall => sc_offset <= sc_cycle + SCROLL_STEP

\* C12 (amended): the offset is a non-negative integer and is 0 after a call
\* on a text that fits, in both routines; at the end of a cycle it is reset
\* only by draw_scrolling_text (an incoming offset beyond text_width - WIDTH
\* is replaced by 0 before drawing); draw_scrolling_text_infinite never resets
\* it on a wide text: it grows by 2 per call across cycles.
C12_OffsetLifecycle ==
    /\ sc_offset \in Nat
    /\ (sc_n > 0 /\ sc_width <= WIDTH) => sc_offset = 0
    /\ (WideCall /\ sc_routine = "bounded") =>
          /\ sc_in > sc_width - WIDTH => sc_offset = SCROLL_STEP
          /\ sc_offset <= sc_width - WIDTH + SCROLL_STEP
    /\ (WideCall /\ sc_routine = "infinite") =>
          /\ sc_offset = sc_in + SCROLL_STEP
          /\ sc_offset = sc_start + SCROLL_STEP * sc_n

\* C12 witness: the infinite routine was called with an offset past a full
\* cycle and handed back a still larger one.
C12_Witness ==
    /\ sc_routine = "infinite"
    /\ WideCall
    /\ sc_in >= sc_total
    /\ sc_offset > sc_total + SCROLL_STEP

\* C14: when the last call on a line found a text that fits and the text is
\* now wider than the viewport, the next call (the first scrolling frame)
\* draws the primary copy at x = 0, whatever offset had accumulated before
\* the text fitted, in both routines.
C14_CleanRestart ==
    [][(sc_prev_fit /\ sc_n' = sc_n + 1 /\ sc_width > WIDTH) =>
          /\ sc_offset = 0
          /\ sc_draws'[1] = DrawText(0, LineY, sc_text)]_vars

\* C14 witness: a text that fits was called with a non-zero offset left by an
\* earlier text, then the text became wide and its first frame was drawn.
C14_Witness ==
    /\ sc_routine = "infinite"
    /\ sc_changes = MaxTextChanges
    /\ sc_fit_in > MaxStartOffset
    /\ sc_width > WIDTH
    /\ sc_n = 1
    /\ ~sc_prev_fit
    /\ sc_draws[1].x = 0

\* C16: with a constant text wider than the viewport, from one call of
\* draw_scrolling_text_infinite to the next every copy drawn moves left by
\* exactly 2 px; on the call before the effective offset wraps a second copy
\* is drawn at total_length - effective_offset and the next call draws the
\* primary copy 2 px to the left of it; two copies are always exactly
\* text_width + spacing apart and do not overlap.
C16_SmoothAcrossWrap ==
    [][(sc_routine = "infinite" /\ WideCall /\ sc_n' = sc_n + 1) =>
          LET w  == sc_width
              T  == w + spacing
              e  == sc_in % T
              e2 == sc_in' % T
          IN  /\ sc_in' = sc_in + SCROLL_STEP
              /\ IF e2 < e
                 THEN /\ Len(sc_draws) = 2
                      /\ sc_draws[2].x = T - e
                      /\ sc_draws'[1].x = sc_draws[2].x - SCROLL_STEP
                 ELSE /\ sc_draws'[1].x = sc_draws[1].x - SCROLL_STEP
                      /\ Len(sc_draws) = 2 =>
                            /\ Len(sc_draws') = 2
                            /\ sc_draws'[2].x = sc_draws[2].x - SCROLL_STEP
              /\ Len(sc_draws') = 2 =>
                    /\ sc_draws'[2].x - sc_draws'[1].x = w + spacing
                    /\ sc_draws'[1].x + w <= sc_draws'[2].x]_vars

\* C16 witness: the effective offset has just wrapped, from an odd offset.
C16_Witness ==
    /\ sc_routine = "infinite"
    /\ WideCall
    /\ sc_n > 1
    /\ sc_in > sc_total
    /\ sc_eff_in = 1
    /\ sc_draws[1].x = -1

\* C17: draw_scrolling_text on a text wider than the display, whatever offset
\* comes in: the text is drawn once at x = -o with 0 <= o <= text_width -
\* WIDTH, so that the copy covers the whole viewport; the offset returned is
\* o + 2, at most text_width - WIDTH + 2; an incoming offset beyond
\* text_width - WIDTH is drawn at x = 0 in that same frame.
C17_BoundedScroll ==
    (sc_routine = "bounded" /\ WideCall) =>
        LET w == sc_width
            o == -sc_draws[1].x
        IN  /\ sc_draws = <<DrawText(-o, LineY, sc_text)>>
            /\ 0 <= o /\ o <= w - WIDTH
            /\ sc_draws[1].x <= 0 /\ sc_draws[1].x + w >= WIDTH
            /\ sc_offset = o + SCROLL_STEP
            /\ sc_offset <= w - WIDTH + SCROLL_STEP
            /\ sc_in > w - WIDTH => o = 0
            /\ sc_in <= w - WIDTH => o = sc_in

\* C17 witness: the text was replaced by a narrower one, still wider than the
\* display, and the offset left by the earlier text was beyond its end.
C17_Witness ==
    /\ sc_routine = "bounded"
    /\ WideCall
    /\ sc_changes > 0
    /\ sc_n = 1
    /\ sc_in > MaxStartOffset
    /\ sc_in > sc_width - WIDTH
    /\ sc_draws[1].x = 0

(***************************************************************************)
(* Further claims about the render loops (checked under Spec).             *)
(***************************************************************************)
\* a substitution of the default font at a font variable is logged when
\* the except clause of that load printed a message
Logged(site) == \E i \in DOMAIN log : log[i].site = site

\* C11: whenever a font cannot be loaded and the default font is substituted,
\* the substitution is logged, for every font load of the program: the
\* start-up loads and the per-frame loads of display_icon_mode.
C11_SubstitutionLogged ==
    \A s \in FontSites : fonts[s] = "default" => Logged(s)

\* the start-up loads do log their substitutions
C11_StartupLogged ==
    \A i \in DOMAIN StartupSites(script) :
        fonts[StartupSites(script)[i]] = "default" => Logged(StartupSites(script)[i])

\* a frame was sent to the display in this step
FrameTick == shown' = shown + 1

\* C13 (as stated): every tick ends with a sleep of the frame interval, 0.1 s,
\* whichever page is active.
C13_FixedInterval ==
    [][FrameTick =>
          /\ steps'[Len(steps')] = "sleep"
          /\ now' - now = REFRESH_INTERVAL]_vars

\* C13 (amended): every tick ends with a sleep; the sleep is the frame
\* interval, 0.1 s, in stats.py and in the scrolling mode of
\* statsAndmonitor.py, and LOOPTIME, 1 s, in its icon mode.
C13_IntervalPerMode ==
    [][FrameTick =>
          /\ steps'[Len(steps')] = "sleep"
          /\ now' - now = IF script = "monitor" /\ current_mode' = 1
                          THEN LOOPTIME
                          ELSE REFRESH_INTERVAL]_vars

\* C13 witness: two icon-mode ticks have been made since the switch.
C13_Witness ==
    /\ script = "monitor"
    /\ current_mode = 1
    /\ shown > 0
    /\ now = mode_start_time + 2 * LOOPTIME
    /\ steps[Len(steps)] = "sleep"

\* the frame has the icon layout
IsIconFrame(f) ==
    \E k \in 1..Len(f) : f[k].op = "text" /\ f[k].font = "icon_small"

\* the frame has the scrolling layout: the IP line first, in the main font
IsScrollFrame(f, m) ==
    /\ Len(f) >= 2
    /\ f[2] = DrawText(0, 0, "IP: " \o m["IP"])
    /\ ~IsIconFrame(f)

\* C15: every tick of the statsAndmonitor.py loop makes its steps in the
\* order mode-timer decision, metrics refresh, clear, draw the lines of the
\* active page, submit to the display, sleep; one frame is submitted per
\* tick, the buffer is cleared before any line is drawn, and the frame has
\* the layout of the page chosen in the same tick, drawn from the metrics
\* fetched in the same tick.
C15_TickOrdering ==
    [][(script = "monitor" /\ shown' # shown) =>
          LET n == Len(steps')
          IN  /\ n >= 7
              /\ steps'[1] = "mode_timer"
              /\ steps'[2] = "fetch_metrics"
              /\ steps'[3] = "rectangle"
              /\ \A k \in 4..(n - 3) : steps'[k] = "text"
              /\ steps'[n - 2] = "image"
              /\ steps'[n - 1] = "show"
              /\ steps'[n] = "sleep"
              /\ SubSeq(steps', 3, n - 1) = FrameOps(frame')
              /\ frame'[1] = ClearImage
              /\ Cardinality({k \in 1..Len(frame') : frame'[k].op = "show"}) = 1
              /\ shown' = shown + 1
              /\ last_fetch' = now
              /\ metrics' = fetch_metrics(raised')
              /\ current_mode' = IF now - mode_start_time >= MODE_DURATION
                                 THEN 1 - current_mode
                                 ELSE current_mode
              /\ IF current_mode' = 0
                 THEN IsScrollFrame(frame', metrics')
                 ELSE /\ IsIconFrame(frame')
                      /\ frame'[Len(frame') - 2].text = metrics'["IP"]]_vars

\* C15 witness: the tick at which the page switched to icon mode has drawn
\* the icon layout.
C15_Witness ==
    /\ script = "monitor"
    /\ current_mode = 1
    /\ mode_start_time = MODE_DURATION
    /\ now = MODE_DURATION + LOOPTIME
    /\ IsIconFrame(frame)
    /\ steps[1] = "mode_timer"
    /\ steps[Len(steps)] = "sleep"

\* the text of a scrolling line, by script
LineTextOf(sc, m, l) ==
    IF sc = "monitor" THEN MonitorLineText(m, l) ELSE StatsLineText(m, l)

\* the offset one call leaves on a line, from that line's text and offset
OwnNextOffset(sc, text, o) ==
    IF textwidth(text) <= WIDTH THEN 0
    ELSE IF sc = "monitor" THEN o + SCROLL_STEP
    ELSE (IF o > textwidth(text) - WIDTH THEN 0 ELSE o) + SCROLL_STEP

\* C18: in one scrolling tick each of the three offsets is updated once, from
\* its own previous value and its own line's text only, whatever happens to
\* the other lines; the offset keys are always exactly CPU, Mem, Disk.
C18_LinesIndependent ==
    /\ DOMAIN offsets = Lines
    /\ [][/\ DOMAIN offsets' = Lines
          /\ (FrameTick /\ (script = "stats" \/ current_mode' = 0)) =>
                \A l \in Lines :
                    offsets'[l] =
                        OwnNextOffset(script, LineTextOf(script, metrics', l),
                                      offsets[l])]_vars

\* C18 witness: the Mem line fitted on the first tick and scrolls on the
\* second, restarting from 0, while the CPU and Disk lines went on.
C18_Witness ==
    /\ script = "monitor"
    /\ current_mode = 0
    /\ shown = 2
    /\ "Mem" \notin raised
    /\ offsets = [l \in Lines |-> IF l = "Mem" THEN SCROLL_STEP ELSE 2 * SCROLL_STEP]

====
